---- MODULE Spec2Model ----
(***************************************************************************)
(* Duplicate-file detection and disposal, src/Python/advanced_file_manager *)
(* .py: find_duplicate_files scans a tree in os.walk order and builds the  *)
(* size -> {hash -> path} index and the list of (full_path, indexed path)  *)
(* pairs; manage_duplicate_files then lists, deletes or moves.             *)
(***************************************************************************)
EXTENDS Integers, Sequences, FiniteSets, TLC

\* ------------------------------------------------------------------ bounds
\* Longest walk (number of files os.walk yields).
MaxFiles == 4
\* Most files of one tree that cannot be stat'ed or read.
MaxBad == 2
\* Clock ticks that may pass during one disposition run.
MaxClock == 2
\* Clock ticks per second of datetime.now(): strftime("%Y%m%d_%H%M%S") drops
\* every unit below the second.
TicksPerSecond == 2

\* ------------------------------------------------------------ the tree
\* os.walk(directory) is top-down: the root's files come before the files of
\* its sub-directory.
DirPaths == <<"test_files", "test_files/sub">>
\* The names a directory may hold: the names of the demo in the root (as many
\* as leave room for two files of the sub-directory in the longest walk), the
\* first two of them again in the sub-directory.
RootNames == <<"file1.txt", "file2.txt", "file3.txt">>
FileNames(d) ==
  IF d = "test_files"
    THEN {RootNames[n] : n \in {m \in DOMAIN RootNames : m <= MaxFiles - 2}}
    ELSE {RootNames[1], RootNames[2]}
\* File contents as byte strings: two of equal size, one of another size.
Contents == {<<1>>, <<2>>, <<1, 1>>}
\* ok: stat and read succeed; noread: open/read raises IOError; vanished:
\* os.path.getsize raises OSError (the file went away after the walk listed it).
Statuses == {"ok", "noread", "vanished"}

None == -1

\* os.path.join(dirpath, filename)
join(dirpath, filename) == <<dirpath, filename>>
\* os.path.basename(path)
basename(path) == path[2]

DirIndex(d) == CHOOSE n \in DOMAIN DirPaths : DirPaths[n] = d

Entries ==
  {e \in [dirpath : {DirPaths[n] : n \in DOMAIN DirPaths},
          filename : UNION {FileNames(DirPaths[n]) : n \in DOMAIN DirPaths},
          content : Contents \cup {<<>>}, status : Statuses] :
     /\ e.filename \in FileNames(e.dirpath)
     /\ (e.status = "vanished") <=> (e.content = <<>>)}

FullPath(e) == join(e.dirpath, e.filename)

\* The sequences os.walk can yield: every path once, directory by directory,
\* top-down.  CanFollow(w, e): the walk w can go on with the entry e.
CanFollow(w, e) ==
  /\ \A a \in DOMAIN w : FullPath(w[a]) # FullPath(e)
  /\ w # <<>> => DirIndex(w[Len(w)].dirpath) <= DirIndex(e.dirpath)
  /\ Cardinality({a \in DOMAIN w : w[a].status # "ok"})
       + (IF e.status # "ok" THEN 1 ELSE 0) <= MaxBad
  /\ Len(w) < MaxFiles

\* ------------------------------------------------------------ get_file_hash
\* The digest when hasher.update is never reached.
hexdigestOfNothing(bytes) == 1

\* hasher.update(chunk) over the byte stream, then hexdigest(): a digest that
\* separates the byte strings of the model.
RECURSIVE hexdigest(_)
hexdigest(bytes) ==
  IF bytes = <<>> THEN 1
  ELSE 3 * hexdigest(SubSeq(bytes, 1, Len(bytes) - 1)) + bytes[Len(bytes)]

get_file_hash(e) == IF e.status = "ok" THEN hexdigest(e.content) ELSE None

\* os.path.getsize of a file that can be stat'ed.
getsize(e) == Len(e.content)

\* -------------------------------------------------- find_duplicate_files
\* Line 30 without "current_hash is not None".
IsDuplicateNoNoneCheck(fh, size, h) ==
  size \in DOMAIN fh /\ h \in DOMAIN fh[size]

\* Line 28 and line 30: the file is a duplicate of an indexed one.
IsDuplicate(fh, size, h) ==
  size \in DOMAIN fh /\ h # None /\ h \in DOMAIN fh[size]

\* The indexed path a duplicate is paired with (line 31).
Original(fh, size, h) == fh[size][h]

\* Line 33 run on a match too.
IndexStepOverwrite(fh, size, h, path) ==
  IF size \in DOMAIN fh
    THEN (size :> ((h :> path) @@ fh[size])) @@ fh
    ELSE (size :> (h :> path)) @@ fh

\* Lines 28-35, the index after one file: unchanged on a match (line 31),
\* file_hashes[size][hash] = full_path otherwise (lines 33 and 35).
IndexStep(fh, size, h, path) ==
  IF IsDuplicate(fh, size, h) THEN fh
  ELSE IF size \in DOMAIN fh
    THEN (size :> ((h :> path) @@ fh[size])) @@ fh
    ELSE (size :> (h :> path)) @@ fh

\* Line 31 with the two components the other way round.
PairsStepSwapped(dups, fh, size, h, path) ==
  IF IsDuplicate(fh, size, h)
    THEN Append(dups, <<Original(fh, size, h), path>>)
    ELSE dups

\* Line 31 as duplicates.insert(0, ...).
PairsStepAtFront(dups, fh, size, h, path) ==
  IF IsDuplicate(fh, size, h)
    THEN <<<<path, Original(fh, size, h)>>>> \o dups
    ELSE dups

\* Lines 30-31, the pair list after one file.
PairsStep(dups, fh, size, h, path) ==
  IF IsDuplicate(fh, size, h)
    THEN Append(dups, <<path, Original(fh, size, h)>>)
    ELSE dups

\* The whole scan of a walk, lines 19-41: the index and the pairs after the
\* first n files.
RECURSIVE ScanOf(_, _)
ScanOf(w, n) ==
  IF n = 0 THEN [file_hashes |-> <<>>, duplicates |-> <<>>]
  ELSE LET prev == ScanOf(w, n - 1)
           e == w[n]
       IN IF e.status = "vanished" THEN prev
          ELSE [file_hashes |-> IndexStep(prev.file_hashes, getsize(e),
                                          get_file_hash(e), FullPath(e)),
                duplicates |-> PairsStep(prev.duplicates, prev.file_hashes,
                                         getsize(e), get_file_hash(e), FullPath(e))]

find_duplicate_files(w) == ScanOf(w, Len(w)).duplicates

\* ------------------------------------------------------------------ state
VARIABLES
  root,         \* what the directory argument names: "dir", "missing", "file"
  walk,         \* what os.walk yields, in order (the tree as scanned)
  i,            \* position of the scan in the walk
  file_hashes,  \* line 19: size -> (hash -> path)
  duplicates,   \* line 20: the pairs (full_path, indexed path)
  hashed,       \* the paths get_file_hash was called on, in order
  pc,           \* "tree", "scan", "scan_raised", "found", "manage", "done", "raised"
  action,       \* manage_duplicate_files' action argument
  k,            \* position of manage_duplicate_files in the pair list
  exists,       \* the paths of the tree that exist
  now,          \* datetime.now(), in clock ticks
  dirs,         \* the holding directories made (os.makedirs)
  held,         \* holding directory, base name -> content of the file there
  printed,      \* lines 52-53: what was printed after the two labels
  attempts,     \* the os.remove / shutil.move calls made and how each ended
  rescanned,    \* find_duplicate_files was called a second time
  first_result, \* what the first call returned, once there is a second
  tasks_db,     \* todo_api.py line 16: the tasks, in insertion order
  uuids,        \* how many ids uuid.uuid4() has given out
  response      \* the response to the last request of the to-do API

fileVars == <<root, walk, i, file_hashes, duplicates, hashed, pc, action, k, exists,
              now, dirs, held, printed, attempts, rescanned, first_result>>
todoVars == <<tasks_db, uuids, response>>
vars == <<fileVars, todoVars>>

scanVars == <<i, file_hashes, duplicates, hashed>>
runVars == <<action, k, exists, now, dirs, held, printed, attempts>>
againVars == <<rescanned, first_result>>

\* What the directory argument can name: a directory, nothing, a regular file.
Roots == {"dir", "missing", "file"}

\* "report" stands for every value that is neither of lines 55 and 61.
Actions == {"list", "report", "delete", "move"}

Init ==
  /\ root \in Roots
  /\ walk = <<>>
  /\ i = 1
  /\ file_hashes = <<>>
  /\ duplicates = <<>>
  /\ hashed = <<>>
  /\ pc = "tree"
  /\ action = "list"
  /\ k = 1
  /\ exists = {}
  /\ now = 0
  /\ dirs = {}
  /\ held = <<>>
  /\ printed = <<>>
  /\ attempts = <<>>
  /\ rescanned = FALSE
  /\ first_result = <<>>
  /\ tasks_db = <<>>
  /\ uuids = 0
  /\ response = [op |-> "none"]

\* The entry of the walk with this path.
EntryOf(path) == walk[CHOOSE n \in DOMAIN walk : FullPath(walk[n]) = path]

\* The tree under the root before the scan, in the order lines 22-23 will
\* enumerate it: one more file e.  os.walk of a root that is missing or is no
\* directory swallows the error of its scandir (onerror is None) and yields
\* nothing.
TreeEntry(e) ==
  /\ pc = "tree"
  /\ root = "dir"
  /\ CanFollow(walk, e)
  /\ walk' = Append(walk, e)
  /\ exists' = IF e.status = "vanished" THEN exists ELSE exists \cup {FullPath(e)}
  /\ UNCHANGED <<root, pc, action, k, now, dirs, held, printed, attempts>>
  /\ UNCHANGED scanVars
  /\ UNCHANGED againVars
  /\ UNCHANGED todoVars

\* Lines 17-20: find_duplicate_files(directory) is called.
ScanStart ==
  /\ pc = "tree"
  /\ pc' = "scan"
  /\ UNCHANGED <<root, walk>>
  /\ UNCHANGED scanVars
  /\ UNCHANGED runVars
  /\ UNCHANGED againVars
  /\ UNCHANGED todoVars

\* Line 37 as "except PermissionError".
ScanCatchesPermissionOnly(err) == err = "PermissionError"

\* Line 37: except (IOError, OSError), which the FileNotFoundError of a
\* vanished file is.
ScanCatches(err) == err \in {"FileNotFoundError", "PermissionError"}

\* get_file_hash called only when the size is already a key of the index.
HashedStepOnCollision(hs, fh, size, path) ==
  IF size \in DOMAIN fh THEN Append(hs, path) ELSE hs

\* Lines 29 and 35: get_file_hash(full_path) is called in both branches of
\* line 28.
HashedStep(hs, fh, size, path) == Append(hs, path)

\* Lines 23-39: one file of the walk.  A getsize failure is caught at line 37;
\* the hash is computed at line 29 or line 35, in both branches.
ScanFile ==
  /\ pc = "scan"
  /\ i <= Len(walk)
  /\ LET e == walk[i]
         full_path == join(e.dirpath, e.filename)
     IN IF e.status = "vanished"
          THEN /\ UNCHANGED <<file_hashes, duplicates, hashed>>
               /\ pc' = IF ScanCatches("FileNotFoundError") THEN pc ELSE "scan_raised"
          ELSE LET file_size == getsize(e)
                   current_hash == get_file_hash(e)
               IN /\ pc' = pc
                  /\ hashed' = HashedStep(hashed, file_hashes, file_size, full_path)
                  /\ duplicates' = PairsStep(duplicates, file_hashes, file_size,
                                             current_hash, full_path)
                  /\ file_hashes' = IndexStep(file_hashes, file_size,
                                              current_hash, full_path)
  /\ i' = i + 1
  /\ UNCHANGED <<root, walk>>
  /\ UNCHANGED runVars
  /\ UNCHANGED againVars
  /\ UNCHANGED todoVars

\* Line 41.
ScanReturn ==
  /\ pc = "scan"
  /\ i > Len(walk)
  /\ pc' = "found"
  /\ UNCHANGED <<root, walk>>
  /\ UNCHANGED scanVars
  /\ UNCHANGED runVars
  /\ UNCHANGED againVars
  /\ UNCHANGED todoVars

\* Lines 43-48: manage_duplicate_files(found_duplicates, action=a).
ManageStart(a) ==
  /\ pc = "found"
  /\ ~rescanned
  /\ action' = a
  /\ pc' = IF duplicates = <<>> THEN "done" ELSE "manage"
  /\ k' = 1
  /\ UNCHANGED <<root, walk, exists, now, dirs, held, printed, attempts>>
  /\ UNCHANGED scanVars
  /\ UNCHANGED againVars
  /\ UNCHANGED todoVars

\* Line 50: for i, (path1, path2) in enumerate(duplicates).
path1Of(pair) == pair[1]
path2Of(pair) == pair[2]

\* Lines 52-53: path1 is printed after the label of line 52, path2 after the
\* label of line 53.
Report(pair) == [line52 |-> path1Of(pair), line53 |-> path2Of(pair)]

\* The path lines 57 and 67 act on.
Disposed(pair) == path2Of(pair)

\* Line 59 as "except PermissionError".
DeleteCatchesPermissionOnly(err) == err = "PermissionError"

\* Line 59: except OSError.  FileNotFoundError, PermissionError and
\* shutil.Error are all OSError.
DeleteCatches(err) == err \in {"FileNotFoundError", "PermissionError", "shutil.Error"}

\* Line 69: except shutil.Error.
MoveCatches(err) == err = "shutil.Error"

\* How os.remove(path) and shutil.move(path, ...) of a regular file can end.
Outcomes(path) ==
  IF path \in exists THEN {"ok", "PermissionError"} ELSE {"FileNotFoundError"}

\* Line 55 as "if action != 'move'".
IsDeleteUnlessMove(a) == a # "move"

\* Line 55: if action == 'delete'.
IsDelete(a) == a = "delete"

\* Line 61: elif action == 'move'.
IsMove(a) == ~IsDelete(a) /\ a = "move"

\* Line 19 with the index kept in a module-level dictionary.
InitialIndexKept(previous) == previous

\* Line 19: file_hashes = {}, a local of the call.
InitialIndex(previous) == <<>>

\* Lines 19-41 as one call that starts from the index fh0: the index, the
\* pairs and the files hashed after the first n files of the walk.
RECURSIVE ScanFrom(_, _, _)
ScanFrom(fh0, w, n) ==
  IF n = 0 THEN [file_hashes |-> fh0, duplicates |-> <<>>, hashed |-> <<>>]
  ELSE LET prev == ScanFrom(fh0, w, n - 1)
           e == w[n]
       IN IF e.status = "vanished" THEN prev
          ELSE [file_hashes |-> IndexStep(prev.file_hashes, getsize(e),
                                          get_file_hash(e), FullPath(e)),
                duplicates |-> PairsStep(prev.duplicates, prev.file_hashes,
                                         getsize(e), get_file_hash(e), FullPath(e)),
                hashed |-> HashedStep(prev.hashed, prev.file_hashes,
                                      getsize(e), FullPath(e))]

\* Lines 17-41 again: find_duplicate_files is called a second time on the
\* tree as the first call found it, right away or after a run of
\* manage_duplicate_files that changed nothing, and returns.  The run ends
\* with the second result.
Rescan ==
  /\ ~rescanned
  /\ \/ pc = "found"
     \/ pc = "done" /\ ~IsDelete(action) /\ ~IsMove(action)
  /\ rescanned' = TRUE
  /\ first_result' = duplicates
  /\ LET again == ScanFrom(InitialIndex(file_hashes), walk, Len(walk))
     IN /\ file_hashes' = again.file_hashes
        /\ duplicates' = again.duplicates
        /\ hashed' = again.hashed
  /\ i' = Len(walk) + 1
  /\ pc' = "found"
  /\ UNCHANGED <<root, walk>>
  /\ UNCHANGED runVars
  /\ UNCHANGED todoVars

\* Lines 50-53 with neither line 55 nor line 61 taken.
ManageList ==
  /\ pc = "manage"
  /\ ~IsDelete(action) /\ ~IsMove(action)
  /\ k <= Len(duplicates)
  /\ printed' = Append(printed, Report(duplicates[k]))
  /\ k' = k + 1
  /\ UNCHANGED <<root, walk, pc, action, exists, now, dirs, held, attempts>>
  /\ UNCHANGED scanVars
  /\ UNCHANGED againVars
  /\ UNCHANGED todoVars

\* Lines 50-60.
ManageDelete ==
  /\ pc = "manage"
  /\ IsDelete(action)
  /\ k <= Len(duplicates)
  /\ printed' = Append(printed, Report(duplicates[k]))
  /\ \E r \in Outcomes(Disposed(duplicates[k])) :
       /\ attempts' = Append(attempts, [path |-> Disposed(duplicates[k]), result |-> r])
       /\ exists' = IF r = "ok" THEN exists \ {Disposed(duplicates[k])} ELSE exists
       /\ pc' = IF r = "ok" \/ DeleteCatches(r) THEN "manage" ELSE "raised"
  /\ k' = k + 1
  /\ UNCHANGED <<root, walk, action, now, dirs, held>>
  /\ UNCHANGED scanVars
  /\ UNCHANGED againVars
  /\ UNCHANGED todoVars

\* Line 62: datetime.now().strftime("%Y%m%d_%H%M%S").
strftime(t) == t \div TicksPerSecond

\* Lines 50-53 and 61-70.  shutil.move of a regular file renames it onto the
\* destination, replacing a file already there; when the rename is refused it
\* copies the file and then unlinks the source, so a PermissionError can leave
\* the copy behind (copied) with the source still in place.
ManageMove ==
  /\ pc = "manage"
  /\ IsMove(action)
  /\ k <= Len(duplicates)
  /\ printed' = Append(printed, Report(duplicates[k]))
  /\ LET timestamp == strftime(now)
         move_dir == timestamp
         src == Disposed(duplicates[k])
         dst == join(move_dir, basename(src))
     IN /\ dirs' = dirs \cup {move_dir}
        /\ \E r \in Outcomes(src) :
             \E copied \in (IF r = "PermissionError" THEN BOOLEAN ELSE {r = "ok"}) :
               /\ attempts' = Append(attempts, [path |-> src, result |-> r])
               /\ exists' = IF r = "ok" THEN exists \ {src} ELSE exists
               /\ held' = IF copied THEN (dst :> EntryOf(src).content) @@ held ELSE held
               /\ pc' = IF r = "ok" \/ MoveCatches(r) THEN "manage" ELSE "raised"
  /\ k' = k + 1
  /\ UNCHANGED <<root, walk, action, now>>
  /\ UNCHANGED scanVars
  /\ UNCHANGED againVars
  /\ UNCHANGED todoVars

\* The loop of line 50 is over.
ManageReturn ==
  /\ pc = "manage"
  /\ k > Len(duplicates)
  /\ pc' = "done"
  /\ UNCHANGED <<root, walk>>
  /\ UNCHANGED scanVars
  /\ UNCHANGED runVars
  /\ UNCHANGED againVars
  /\ UNCHANGED todoVars

\* Time passes between one pair and the next; line 62 is the only place the
\* clock is read, so only the time that passes after the first pair shows.
Tick ==
  /\ pc = "manage"
  /\ action = "move"
  /\ 1 < k /\ k <= Len(duplicates)
  /\ now < MaxClock
  /\ now' = now + 1
  /\ UNCHANGED <<root, walk, pc, action, k, exists, dirs, held, printed, attempts>>
  /\ UNCHANGED scanVars
  /\ UNCHANGED againVars
  /\ UNCHANGED todoVars

Next ==
  \/ \E e \in Entries : TreeEntry(e)
  \/ ScanStart
  \/ ScanFile
  \/ ScanReturn
  \/ Rescan
  \/ \E a \in Actions : ManageStart(a)
  \/ ManageList
  \/ ManageDelete
  \/ ManageMove
  \/ ManageReturn
  \/ Tick

Spec == Init /\ [][Next]_vars

\* ------------------------------------------------------------ properties
\* find_duplicate_files has returned.
Scanned == pc \in {"found", "manage", "done", "raised"}
\* find_duplicate_files is running or has just returned.  No later step
\* assigns walk, i, file_hashes or duplicates, so what holds of them here
\* holds for the rest of the run.
InScan == pc \in {"scan", "found"}
\* manage_duplicate_files is running or has ended.
Managing == pc \in {"manage", "done", "raised"}

AllReadable == \A n \in DOMAIN walk : walk[n].status = "ok"
\* The positions of the walk that hold a file of content c.
Group(c) == {n \in DOMAIN walk : walk[n].status # "vanished" /\ walk[n].content = c}
First(S) == CHOOSE n \in S : \A m \in S : n <= m
PathAt(n) == FullPath(walk[n])
\* The pairs whose first component is a file of the group G.
PairsOf(G) == {j \in DOMAIN duplicates : \E n \in G : duplicates[j][1] = PathAt(n)}

\* C1: when every file can be stat'ed and read, a group of N identical files
\* gives exactly N-1 pairs whose first component is in the group, and the
\* second component of each is the member of the group first in walk order.
C1_GroupGivesNMinusOnePairs ==
  (Scanned /\ AllReadable) =>
    \A c \in Contents :
      Group(c) # {} =>
        /\ Cardinality(PairsOf(Group(c))) = Cardinality(Group(c)) - 1
        /\ \A j \in PairsOf(Group(c)) : duplicates[j][2] = PathAt(First(Group(c)))

C1_Witness ==
  /\ pc = "found"
  /\ AllReadable
  /\ \E c \in Contents : Cardinality(Group(c)) = 3
  /\ \E c \in Contents : Cardinality(Group(c)) = 1
  /\ Len(duplicates) = 2

\* C2: every pair relates two distinct files of the same size, the same
\* fingerprint and the same content.
C2_PairsAreSameSizeSameContent ==
  InScan =>
    \A j \in DOMAIN duplicates :
      LET d == EntryOf(duplicates[j][1])
          o == EntryOf(duplicates[j][2])
      IN /\ duplicates[j][1] # duplicates[j][2]
         /\ getsize(d) = getsize(o)
         /\ get_file_hash(d) # None
         /\ get_file_hash(d) = get_file_hash(o)
         /\ d.content = o.content

C2_Witness ==
  /\ pc = "found"
  /\ Len(duplicates) = 1
  /\ \E n \in DOMAIN walk :
       /\ walk[n].status = "ok"
       /\ getsize(walk[n]) = getsize(EntryOf(duplicates[1][1]))
       /\ walk[n].content # EntryOf(duplicates[1][1]).content
  /\ \E n \in DOMAIN walk :
       /\ walk[n].status = "ok"
       /\ getsize(walk[n]) # getsize(EntryOf(duplicates[1][1]))

\* C3: with action 'delete' or 'move' on the pairs find_duplicate_files
\* returned, the original of every pair (its second component) still exists.
C3_OriginalsUntouched ==
  (Managing /\ action \in {"delete", "move"}) =>
    \A j \in DOMAIN duplicates : duplicates[j][2] \in exists

\* The paths that existed when the scan began.
Scannable == {PathAt(n) : n \in {m \in DOMAIN walk : walk[m].status # "vanished"}}
DuplicatePaths == {duplicates[j][1] : j \in DOMAIN duplicates}

\* C4: after 'delete' with no removal failing, every duplicate path (first
\* component) is gone and every other file is still there.
C4_DeleteRemovesDuplicatesOnly ==
  (pc = "done" /\ action = "delete"
     /\ \A j \in DOMAIN attempts : attempts[j].result = "ok") =>
    /\ \A p \in DuplicatePaths : p \notin exists
    /\ \A p \in Scannable \ DuplicatePaths : p \in exists

\* The positions scanned so far whose file gave the key (size, h).
Observed(size, h) ==
  {n \in 1..(i - 1) : /\ walk[n].status # "vanished"
                      /\ getsize(walk[n]) = size
                      /\ get_file_hash(walk[n]) = h}

\* C5: at every point of the scan the path stored under a (size, fingerprint)
\* key is the first file in walk order observed with that key, and every key
\* observed has its entry (so no later step replaces or drops it).
C5_IndexHoldsFirstSeen ==
  InScan =>
    /\ \A size \in DOMAIN file_hashes :
         \A h \in DOMAIN file_hashes[size] \ {None} :
           /\ Observed(size, h) # {}
           /\ file_hashes[size][h] = PathAt(First(Observed(size, h)))
    /\ \A n \in 1..(i - 1) :
         walk[n].status = "ok" =>
           /\ getsize(walk[n]) \in DOMAIN file_hashes
           /\ get_file_hash(walk[n]) \in DOMAIN file_hashes[getsize(walk[n])]

C5_Witness ==
  /\ pc = "scan"
  /\ i = 4
  /\ \E c \in Contents : Group(c) = {1, 2, 3}
  /\ AllReadable

Readable(e) == e.status # "noread"
Unreadable == {PathAt(n) : n \in {m \in DOMAIN walk : walk[m].status = "noread"}}

\* C6: a path whose hash could not be computed is in no pair, on either
\* side, and the pairs are those of the same walk without the unreadable files.
C6_UnreadableNeverPaired ==
  pc = "found" =>
    /\ \A j \in DOMAIN duplicates :
         duplicates[j][1] \notin Unreadable /\ duplicates[j][2] \notin Unreadable
    /\ duplicates = find_duplicate_files(SelectSeq(walk, Readable))

C6_Witness ==
  /\ pc = "found"
  /\ Len(walk) = 4
  /\ walk[1].status = "noread" /\ walk[3].status = "noread"
  /\ walk[2].status = "ok" /\ walk[4].status = "ok"
  /\ \A n \in DOMAIN walk : getsize(walk[n]) = 1
  /\ duplicates = <<<<PathAt(4), PathAt(2)>>>>

\* C7: no path whose hash failed is ever in the index: every key of the index
\* is a computed fingerprint.
C7_IndexHoldsOnlyFingerprinted ==
  \A size \in DOMAIN file_hashes :
    \A h \in DOMAIN file_hashes[size] :
      h # None /\ file_hashes[size][h] \notin Unreadable

\* The holding directories that hold a file.
HoldingDirs == {x[1] : x \in DOMAIN held}

\* C8: in one 'move' run every quarantined file is in the same directory.
C8_OneHoldingDirectory ==
  (Managing /\ action = "move") => Cardinality(HoldingDirs) <= 1

\* C9: in a 'move' run a failed move does not raise out of
\* manage_duplicate_files and every later pair is still processed.
C9_MoveFailureConfined ==
  (Managing /\ action = "move") =>
    /\ pc # "raised"
    /\ pc = "done" => Len(attempts) = Len(duplicates)

\* C10: in a 'delete' run a failed removal does not stop the run: the pairs
\* are processed in order and the removal of each is attempted.
C10_DeleteGoesOn ==
  (Managing /\ action = "delete") =>
    /\ pc # "raised"
    /\ Len(attempts) = k - 1
    /\ \A j \in DOMAIN attempts : attempts[j].path = Disposed(duplicates[j])
    /\ pc = "done" => Len(attempts) = Len(duplicates)

C10_Witness ==
  /\ pc = "done"
  /\ action = "delete"
  /\ Len(attempts) = 3
  /\ attempts[1].result = "PermissionError"
  /\ attempts[2].result = "ok"
  /\ attempts[3].result = "FileNotFoundError"

\* C11: with a root that is missing or is no directory, find_duplicate_files
\* does not return a pair list: the outcome is an error, which an empty list
\* (the outcome of a valid tree without duplicates) is not.
C11_InvalidRootIsAnError ==
  root # "dir" => ~Scanned

\* C12: in report mode (action 'list', or any value other than 'delete' and
\* 'move') the filesystem stays as it was: no file removed or moved, no
\* directory made.
C12_ReportModeLeavesFilesystem ==
  (Managing /\ action \notin {"delete", "move"}) =>
    /\ exists = Scannable
    /\ dirs = {}
    /\ held = <<>>
    /\ attempts = <<>>

C12_Witness ==
  /\ pc = "done"
  /\ action = "report"
  /\ Len(duplicates) = 2
  /\ Len(printed) = 2

Stattable(e) == e.status # "vanished"
\* The files scanned so far, in walk order.
ScannedSoFar == SubSeq(walk, 1, i - 1)
PathsOf(w) == [n \in DOMAIN w |-> FullPath(w[n])]
\* The position of a path in the walk.
WalkPos(path) == CHOOSE n \in DOMAIN walk : PathAt(n) = path

\* C13 as stated: a file is fingerprinted only when a file scanned earlier has
\* its size.
C13_HashedOnlyOnSizeCollision ==
  \A j \in DOMAIN hashed :
    \E n \in 1..(WalkPos(hashed[j]) - 1) :
      Stattable(walk[n]) /\ getsize(walk[n]) = getsize(EntryOf(hashed[j]))

\* C13 as amended: every file whose size could be read is fingerprinted, once,
\* in walk order, the first of its size included; only a file whose stat
\* failed is not.
C13_HashedWheneverStatted ==
  hashed = PathsOf(SelectSeq(ScannedSoFar, Stattable))

C13_Witness ==
  /\ pc = "found"
  /\ Len(walk) = 3
  /\ walk[1].status = "ok" /\ walk[2].status = "vanished" /\ walk[3].status = "ok"
  /\ getsize(walk[1]) # getsize(walk[3])
  /\ hashed = <<PathAt(1), PathAt(3)>>

\* C14: whatever files fail to be stat'ed or read, the scan does not raise and
\* goes on to return; a path whose stat fails is skipped and the pairs are
\* those of the walk without it.
C14_ScanSurvivesFailures ==
  /\ pc # "scan_raised"
  /\ pc = "scan" => ENABLED (ScanFile \/ ScanReturn)
  /\ pc = "found" => duplicates = find_duplicate_files(SelectSeq(walk, Stattable))
  /\ \A j \in DOMAIN duplicates :
       Stattable(EntryOf(duplicates[j][1])) /\ Stattable(EntryOf(duplicates[j][2]))

C14_Witness ==
  /\ pc = "found"
  /\ Len(walk) = 4
  /\ walk[1].status = "vanished" /\ walk[3].status = "noread"
  /\ duplicates = <<<<PathAt(4), PathAt(2)>>>>

\* C15: a second find_duplicate_files on the unmodified tree, with or without
\* a report-mode run in between, returns the pair sequence the first call
\* returned.
C15_SecondScanSameResult ==
  rescanned => duplicates = first_result

C15_Witness ==
  /\ rescanned
  /\ pc = "found"
  /\ Len(duplicates) = 2
  /\ Len(printed) = 2

\* The paths the index holds.
Indexed ==
  UNION {{file_hashes[size][h] : h \in DOMAIN file_hashes[size]} :
           size \in DOMAIN file_hashes}

\* C16: a file is the duplicate (first component) of at most one pair, a file
\* the index holds is the duplicate of none, and the pairs come in the order
\* the walk discovered their duplicates.
C16_OncePerDuplicateInDiscoveryOrder ==
  /\ \A a, b \in DOMAIN duplicates :
       a < b => WalkPos(duplicates[a][1]) < WalkPos(duplicates[b][1])
  /\ \A a \in DOMAIN duplicates : duplicates[a][1] \notin Indexed

C16_Witness ==
  /\ pc = "found"
  /\ Len(duplicates) = 2
  /\ duplicates[1][2] # duplicates[2][2]
  /\ WalkPos(duplicates[2][2]) < WalkPos(duplicates[1][1])

\* C17: in the printed report the path after the label "original" (line 52)
\* is the first-discovered file, the one the index held, and the path after
\* the label "duplicate" (line 53) is the later file that matched it.
C17_LabelsNameTheRightFile ==
  \A j \in DOMAIN printed :
    WalkPos(printed[j].line52) < WalkPos(printed[j].line53)

\* C18: in a 'move' run a file placed in the holding directory is never
\* overwritten: the content of every file moved is still held at the end.
C18_QuarantinedNeverOverwritten ==
  (Managing /\ action = "move") =>
    \A j \in DOMAIN attempts :
      attempts[j].result = "ok" =>
        \E x \in DOMAIN held : held[x] = EntryOf(attempts[j].path).content

\* C19: after 'delete' or 'move' on the pairs of a scan, whether the run ended
\* or raised, every content a file of the tree had is still the content of a
\* file that exists at its scanned path.
C19_NoContentLost ==
  (Managing /\ action \in {"delete", "move"}) =>
    \A n \in DOMAIN walk :
      Stattable(walk[n]) =>
        \E m \in DOMAIN walk :
          /\ Stattable(walk[m])
          /\ walk[m].content = walk[n].content
          /\ PathAt(m) \in exists

C19_Witness ==
  /\ pc = "raised"
  /\ action = "move"
  /\ Len(duplicates) = 3
  /\ Len(attempts) = 2
  /\ attempts[1].result = "ok"
  /\ attempts[2].result = "FileNotFoundError"

\* ------------------------------------------------------------ todo_api.py
\* The to-do store of src/FastAPI/todo_api.py: tasks_db and its create,
\* update, delete and search handlers.
\* Most ids uuid.uuid4() gives out.
MaxTasks == 2

\* Optional[T]: <<>> is None, <<x>> is the value x.
Optional(S) == {<<>>} \cup {<<x>> : x \in S}

\* Strings are sequences of letters.
Titles == {<<"a">>, <<"a", "B">>}
Descriptions == {<<"b">>, <<"B", "a">>}
\* The q of a search; <<>> is the q left out (None) or empty, both false at
\* line 140.
Queries == {<<>>, <<"A">>, <<"b">>}

\* str.lower()
lower(str) ==
  [n \in DOMAIN str |-> IF str[n] = "A" THEN "a" ELSE IF str[n] = "B" THEN "b" ELSE str[n]]

\* sub in str
In(sub, str) ==
  \E a \in 0..(Len(str) - Len(sub)) : SubSeq(str, a + 1, a + Len(sub)) = sub

\* Lines 19-22: title is required, description defaults to None, completed
\* to False.
TaskCreate == [title : Titles, description : Optional(Descriptions), completed : BOOLEAN]

\* Lines 25-28 with dict(exclude_unset=True) of line 98: a field left out is
\* not in update_data; description can also be sent as null.  (Requests that
\* send title or completed as null are left out of the model.)
TaskUpdate ==
  {u \in [title : Optional(Titles),
          description : [set : BOOLEAN, value : Optional(Descriptions)],
          completed : Optional(BOOLEAN)] :
     ~u.description.set => u.description.value = <<>>}

TaskIds == 1..MaxTasks
Stored(task_id) == \E n \in DOMAIN tasks_db : tasks_db[n].id = task_id

Response(op, q, completed, status, body) ==
  [op |-> op, q |-> q, completed |-> completed, status |-> status, body |-> body]

\* Lines 72-78.
CreateTask(task) ==
  /\ uuids < MaxTasks
  /\ uuids' = uuids + 1
  /\ tasks_db' = Append(tasks_db, [id |-> uuids + 1, title |-> task.title,
                                   description |-> task.description,
                                   completed |-> task.completed])
  /\ response' = Response("create", <<>>, <<>>, 201, <<>>)
  /\ UNCHANGED fileVars

\* Lines 100-101: for key, value in update_data.items(): current_task[key] = value.
Updated(current_task, u) ==
  [id |-> current_task.id,
   title |-> IF u.title = <<>> THEN current_task.title ELSE u.title[1],
   description |-> IF u.description.set THEN u.description.value
                   ELSE current_task.description,
   completed |-> IF u.completed = <<>> THEN current_task.completed ELSE u.completed[1]]

\* Lines 86-104.
UpdateTask(task_id, u) ==
  /\ IF ~Stored(task_id)
       THEN /\ response' = Response("update", <<>>, <<>>, 404, <<>>)
            /\ UNCHANGED tasks_db
       ELSE /\ tasks_db' = [n \in DOMAIN tasks_db |->
                              IF tasks_db[n].id = task_id THEN Updated(tasks_db[n], u)
                              ELSE tasks_db[n]]
            /\ response' = Response("update", <<>>, <<>>, 200, <<>>)
  /\ UNCHANGED uuids
  /\ UNCHANGED fileVars

\* Lines 112-122.
DeleteTask(task_id) ==
  /\ IF ~Stored(task_id)
       THEN /\ response' = Response("delete", <<>>, <<>>, 404, <<>>)
            /\ UNCHANGED tasks_db
       ELSE /\ tasks_db' = LET Keep(t) == t.id # task_id IN SelectSeq(tasks_db, Keep)
            /\ response' = Response("delete", <<>>, <<>>, 204, <<>>)
  /\ UNCHANGED uuids
  /\ UNCHANGED fileVars

\* Lines 141-142: task_data["description"].lower() is evaluated when q is not
\* in the title; on None it raises AttributeError.
SearchRaises(task_data, q) ==
  /\ q # <<>>
  /\ ~In(lower(q), lower(task_data.title))
  /\ task_data.description = <<>>

\* Lines 138-149 for a task on which nothing raises.
SearchMatch(task_data, q, completed) ==
  /\ q # <<>> =>
       ~(/\ ~In(lower(q), lower(task_data.title))
         /\ ~In(lower(q), lower(task_data.description[1])))
  /\ completed # <<>> => task_data.completed = completed[1]

\* Lines 130-152: the response, 500 when the loop raises.
search_tasks(db, q, completed) ==
  IF \E n \in DOMAIN db : SearchRaises(db[n], q)
    THEN Response("search", q, completed, 500, <<>>)
    ELSE LET Match(t) == SearchMatch(t, q, completed)
         IN Response("search", q, completed, 200, SelectSeq(db, Match))

SearchTasks(q, completed) ==
  /\ response' = search_tasks(tasks_db, q, completed)
  /\ UNCHANGED <<tasks_db, uuids>>
  /\ UNCHANGED fileVars

TodoInit == Init /\ root = "dir"

TodoNext ==
  \/ \E task \in TaskCreate : CreateTask(task)
  \/ \E task_id \in TaskIds, u \in TaskUpdate : UpdateTask(task_id, u)
  \/ \E task_id \in TaskIds : DeleteTask(task_id)
  \/ \E q \in Queries, completed \in Optional(BOOLEAN) : SearchTasks(q, completed)

TodoSpec == TodoInit /\ [][TodoNext]_vars

\* The stored tasks whose title or description contains q whatever the case
\* and, when completed is given, whose completed flag equals it.
Wanted(task, q, completed) ==
  /\ \/ In(lower(q), lower(task.title))
     \/ task.description # <<>> /\ In(lower(q), lower(task.description[1]))
  /\ completed # <<>> => task.completed = completed[1]

\* C20: whatever tasks create, update and delete have left in the store,
\* tasks without a description included, a search with a non-empty q does not
\* fail and returns exactly the tasks that match q and completed.
C20_SearchReturnsMatches ==
  (response.op = "search" /\ response.q # <<>>) =>
    /\ response.status = 200
    /\ response.body =
         LET Want(t) == Wanted(t, response.q, response.completed)
         IN SelectSeq(tasks_db, Want)

====
